---- MODULE Spec2Model ----
(***************************************************************************)
(* A model of src/main.py: class HeightenedLeakyBucketAlgorithm.           *)
(*                                                                         *)
(* Units.  time.time() readings are integers counting 1/200 s, so that     *)
(* leak_rate * time_difference * 100 is the rational                       *)
(* leak_rate * dt * 100 / 200 and int() of it is a truncating division.    *)
(* processing_time is kept in units of 1e-5 ms, so that both the measured  *)
(* value (end - start) * 1000 ms and the literal 0.00034 ms are integers.  *)
(* Bandwidths are exact rationals that happen to be integers (bits/s);     *)
(* float rounding is not modelled.  List indices are 0-based as in the     *)
(* source; TLA+ sequences are 1-based, hence the "+ 1" at every access.    *)
(*                                                                         *)
(* Specifications.  Spec: the public methods called one after another, at  *)
(* any clock readings.  SpecHistory: the same, with a history of what the  *)
(* calls appended, removed and returned.  SpecClock: the same under a      *)
(* clock that never goes back.  SpecCallers: add_packet called by two      *)
(* callers whose statements interleave.  SpecCipher and SpecPlanner: the   *)
(* pure methods on their own.                                              *)
(***************************************************************************)
EXTENDS Integers, Sequences, FiniteSets, TLC

\* ------------------------------------------------------------------ bounds
MaxCapacity == 2
MaxTime == 2
MaxBatch == 1
MaxBurst == 3
MaxPacketLen == 2
MaxSizes == 4

\* ------------------------------------------------- constants of the source
DecryptBypassLen == 10
SmallPlanLen == 10
SmallBatchLen == 5
PascalRows == 5
LeakScale == 100
HlbaOverheadPct == 110
HlbaDivisor == 1000
TraditionalOverheadPct == 145
TraditionalDivisor == 800
StudyPacketLen == 5
StudyTime == 34
TransferFloorInv == 1000
BitsPerByte == 8

\* ------------------------------------------------------------ arithmetic
Min(a, b) == IF a <= b THEN a ELSE b

Max(a, b) == IF a >= b THEN a ELSE b

\* Python's int() of the rational a / b (b > 0): truncation toward zero.
TruncDiv(a, b) == IF a >= 0 THEN a \div b ELSE -((-a) \div b)

\* floor of the rational a / b (b > 0), as the specification words it.
FloorDiv(a, b) == a \div b

RECURSIVE Xor(_, _)
\* Python's ^ on non-negative integers.
Xor(a, b) ==
    IF a = 0 THEN b
    ELSE IF b = 0 THEN a
    ELSE (((a % 2) + (b % 2)) % 2) + 2 * Xor(a \div 2, b \div 2)

\* ------------------------------------------------------- Pascal's triangle
RECURSIVE generate_pascals_triangle(_)
generate_pascals_triangle(rows) ==
    IF rows <= 1 THEN << <<1>> >>
    ELSE LET triangle == generate_pascals_triangle(rows - 1)
             i == rows - 1
             prev == triangle[i]
             row == <<1>> \o [j \in 1..(i - 1) |-> prev[j] + prev[j + 1]] \o <<1>>
         IN  Append(triangle, row)

\* ------------------------------------------------------------- the cipher
XorWithRow(packet, pascal_row) ==
    [i \in 1..Len(packet) |->
        Xor(packet[i], pascal_row[((i - 1) % Len(pascal_row)) + 1] % 256)]

encrypt_packet(packet, pascal_row) == XorWithRow(packet, pascal_row)

decrypt_packet(encrypted_packet, pascal_row) ==
    IF Len(encrypted_packet) <= DecryptBypassLen
    THEN encrypted_packet
    ELSE XorWithRow(encrypted_packet, pascal_row)

\* ------------------------------------------------------------ the planner
\* KadaneStep with >= for >: an index is also kept when the sum only equals
\* the best seen.
KadaneStepNonStrict(st, i, x) ==
    LET meh == Max(x, st.max_ending_here + x)
    IN  IF st.none \/ meh >= st.max_so_far
        THEN [none |-> FALSE, max_so_far |-> meh, max_ending_here |-> meh,
              start_indices |-> Append(st.start_indices, i)]
        ELSE [st EXCEPT !.max_ending_here = meh]

\* One iteration of kadane_algorithm's loop; st.none stands for
\* max_so_far = float('-inf').
KadaneStep(st, i, x) ==
    LET meh == Max(x, st.max_ending_here + x)
    IN  IF st.none \/ meh > st.max_so_far
        THEN [none |-> FALSE, max_so_far |-> meh, max_ending_here |-> meh,
              start_indices |-> Append(st.start_indices, i)]
        ELSE [st EXCEPT !.max_ending_here = meh]

RECURSIVE KadaneLoop(_, _)
\* The state after the first n iterations over arr.
KadaneLoop(arr, n) ==
    IF n = 0
    THEN [none |-> TRUE, max_so_far |-> 0, max_ending_here |-> 0,
          start_indices |-> <<>>]
    ELSE KadaneStep(KadaneLoop(arr, n - 1), n - 1, arr[n])

kadane_algorithm(arr) == KadaneLoop(arr, Len(arr)).start_indices

RECURSIVE InsertByKeyStrict(_, _, _)
\* InsertByKey with < for <=: the index goes before the indices of equal size,
\* as an unstable sort may place it.
InsertByKeyStrict(order, i, sizes) ==
    IF order = <<>> THEN <<i>>
    ELSE IF sizes[Head(order) + 1] < sizes[i + 1]
         THEN <<Head(order)>> \o InsertByKeyStrict(Tail(order), i, sizes)
         ELSE <<i>> \o order

\* Insert index i into the list of indices, after every index whose size is
\* not larger: the place a stable sort by size gives it.
RECURSIVE InsertByKey(_, _, _)
InsertByKey(order, i, sizes) ==
    IF order = <<>> THEN <<i>>
    ELSE IF sizes[Head(order) + 1] <= sizes[i + 1]
         THEN <<Head(order)>> \o InsertByKey(Tail(order), i, sizes)
         ELSE <<i>> \o order

RECURSIVE SortedPrefix(_, _)
\* sorted(range(n), key=lambda i: sizes[i]) for the first n indices.
SortedPrefix(sizes, n) ==
    IF n = 0 THEN <<>>
    ELSE InsertByKey(SortedPrefix(sizes, n - 1), n - 1, sizes)

SortedIndices(packet_sizes) == SortedPrefix(packet_sizes, Len(packet_sizes))

optimize_packet_transmission(packet_sizes) ==
    IF Len(packet_sizes) <= SmallPlanLen
    THEN SortedIndices(packet_sizes)
    ELSE LET transmission_efficiency ==
                 [k \in 1..Len(packet_sizes) |-> -packet_sizes[k]]
             indices == kadane_algorithm(transmission_efficiency)
         IN  IF indices # <<>> THEN indices
             ELSE [k \in 1..Len(packet_sizes) |-> k - 1]

\* ---------------------------------------------------------- the estimator
\* measure_bandwidth's returned value for a packet of n bytes under a profile:
\* effective_size = n * 8 * pct / 100, transfer_time = n / divisor, replaced by
\* 0.001 when it is <= 0, bandwidth = effective_size / transfer_time.
Bandwidth(n, pct, divisor) ==
    IF n <= 0
    THEN (n * BitsPerByte * pct * TransferFloorInv) \div 100
    ELSE (n * BitsPerByte * pct * divisor) \div (100 * n)

measure_bandwidth(packet, is_hlba) ==
    IF is_hlba
    THEN Bandwidth(Len(packet), HlbaOverheadPct, HlbaDivisor)
    ELSE Bandwidth(Len(packet), TraditionalOverheadPct, TraditionalDivisor)

\* measure_bandwidth adding to bandwidth_used under either profile.
BandwidthUsedAfterAny(used, packet, is_hlba) ==
    used + measure_bandwidth(packet, is_hlba)

\* bandwidth_used after measure_bandwidth(packet, is_hlba).
BandwidthUsedAfter(used, packet, is_hlba) ==
    IF is_hlba THEN used + measure_bandwidth(packet, TRUE) ELSE used

\* ------------------------------------------------------------- the bucket
\* int(self.leak_rate * time_difference * 100), dt counted in 1/200 s.
LeakAllowance(rate, dt) == TruncDiv(rate * dt * LeakScale, 200)

\* packets_to_leak without the rate: the whole bucket.
packets_to_leak_all(b, rate, dt) == Len(b)

packets_to_leak(b, rate, dt) == Min(Len(b), LeakAllowance(rate, dt))

\* What no leak() call looks like in leak_call.
NoLeak == [called |-> FALSE, leaked |-> <<>>]

\* leak() taking its packets from the tail of the bucket (pop for popleft).
leak_from_tail(b, rate, last, now) ==
    LET n == Max(0, packets_to_leak(b, rate, now - last))
    IN  [bucket |-> SubSeq(b, 1, Len(b) - n),
         last_leak_time |-> now,
         leaked |-> [i \in 1..n |-> b[Len(b) + 1 - i]],
         leak_call |-> [called |-> TRUE,
                        leaked |-> [i \in 1..n |-> b[Len(b) + 1 - i]]]]

\* leak() leaving last_leak_time alone when it removes nothing, so that the
\* time without a removal counts for the next call.
leak_keeps_credit(b, rate, last, now) ==
    LET n == Max(0, packets_to_leak(b, rate, now - last))
    IN  [bucket |-> SubSeq(b, n + 1, Len(b)),
         last_leak_time |-> IF n = 0 THEN last ELSE now,
         leaked |-> SubSeq(b, 1, n),
         leak_call |-> [called |-> TRUE, leaked |-> SubSeq(b, 1, n)]]

\* leak() on bucket b at clock reading now: range(packets_to_leak) is empty
\* for a negative count.
leak(b, rate, last, now) ==
    LET n == Max(0, packets_to_leak(b, rate, now - last))
    IN  [bucket |-> SubSeq(b, n + 1, Len(b)),
         last_leak_time |-> now,
         leaked |-> SubSeq(b, 1, n),
         leak_call |-> [called |-> TRUE, leaked |-> SubSeq(b, 1, n)]]

\* add_packet without the second capacity check: it appends after leaking.
add_packet_no_recheck(b, cap, rate, last, now, packet) ==
    IF Len(b) < cap
    THEN [bucket |-> Append(b, packet), last_leak_time |-> last,
          added |-> TRUE, leak_call |-> NoLeak]
    ELSE LET lk == leak(b, rate, last, now)
         IN  [bucket |-> Append(lk.bucket, packet),
              last_leak_time |-> lk.last_leak_time,
              added |-> TRUE, leak_call |-> lk.leak_call]

\* add_packet leaking before its first capacity check, as a leaky bucket that
\* drains on every arrival does.
add_packet_leak_first(b, cap, rate, last, now, packet) ==
    LET lk == leak(b, rate, last, now)
    IN  IF Len(lk.bucket) < cap
        THEN [bucket |-> Append(lk.bucket, packet),
              last_leak_time |-> lk.last_leak_time,
              added |-> TRUE, leak_call |-> lk.leak_call]
        ELSE [bucket |-> lk.bucket, last_leak_time |-> lk.last_leak_time,
              added |-> FALSE, leak_call |-> lk.leak_call]

\* add_packet stamping last_leak_time at every admission, also one that finds
\* room and does not leak.
add_packet_stamped(b, cap, rate, last, now, packet) ==
    IF Len(b) < cap
    THEN [bucket |-> Append(b, packet), last_leak_time |-> now,
          added |-> TRUE, leak_call |-> NoLeak]
    ELSE LET lk == leak(b, rate, last, now)
         IN  IF Len(lk.bucket) < cap
             THEN [bucket |-> Append(lk.bucket, packet),
                   last_leak_time |-> lk.last_leak_time,
                   added |-> TRUE, leak_call |-> lk.leak_call]
             ELSE [bucket |-> lk.bucket,
                   last_leak_time |-> lk.last_leak_time,
                   added |-> FALSE, leak_call |-> lk.leak_call]

\* add_packet taking a bucket of capacity items as not yet full.
add_packet_inclusive(b, cap, rate, last, now, packet) ==
    IF Len(b) <= cap
    THEN [bucket |-> Append(b, packet), last_leak_time |-> last,
          added |-> TRUE, leak_call |-> NoLeak]
    ELSE LET lk == leak(b, rate, last, now)
         IN  [bucket |-> lk.bucket, last_leak_time |-> lk.last_leak_time,
              added |-> FALSE, leak_call |-> lk.leak_call]

\* add_packet(packet) on bucket b; now is the reading leak() takes if called.
add_packet(b, cap, rate, last, now, packet) ==
    IF Len(b) < cap
    THEN [bucket |-> Append(b, packet), last_leak_time |-> last,
          added |-> TRUE, leak_call |-> NoLeak]
    ELSE LET lk == leak(b, rate, last, now)
         IN  IF Len(lk.bucket) < cap
             THEN [bucket |-> Append(lk.bucket, packet),
                   last_leak_time |-> lk.last_leak_time,
                   added |-> TRUE, leak_call |-> lk.leak_call]
             ELSE [bucket |-> lk.bucket,
                   last_leak_time |-> lk.last_leak_time,
                   added |-> FALSE, leak_call |-> lk.leak_call]

\* ------------------------------------------------------------- the inputs
Capacities == -1..MaxCapacity

\* leak_rate = 2 is the setting of the source's own run (line 318).
Rates == {-1, 0, 1, 2}

Times == 0..MaxTime

\* The packets of a batch.
Packets == {<<>>, <<0>>, <<0, 0, 0, 0, 0>>}

\* The packets handed to add_packet and measure_bandwidth directly.
DirectPackets == {<<1>>, <<1, 1, 1, 1, 1>>}

RECURSIVE SeqsUpTo(_, _)
\* The sequences over S of length at most n.
SeqsUpTo(S, n) ==
    IF n = 0 THEN {<<>>}
    ELSE LET shorter == SeqsUpTo(S, n - 1)
         IN  shorter \cup {Append(q, x) : q \in shorter, x \in S}

\* A batch of n copies of packet p, with packet q at 0-based place k.
BatchOf(n, p, k, q) == [j \in 1..n |-> IF j = k + 1 THEN q ELSE p]

\* Batches beyond the thresholds of process_packets (5) and of the planner (10).
LongBatches ==
    {<<<<0, 0, 0, 0, 0>>, <<0>>>>,
     BatchOf(SmallBatchLen, <<0>>, 0, <<0>>),
     BatchOf(SmallBatchLen + 1, <<0>>, 0, <<0, 0, 0, 0, 0>>),
     BatchOf(SmallPlanLen + 1, <<0>>, 0, <<0>>),
     BatchOf(SmallPlanLen + 1, <<0, 0, 0, 0, 0>>, 1, <<0>>),
     BatchOf(SmallPlanLen + 1, <<0>>, 1, <<>>)}

Batches == SeqsUpTo(Packets, MaxBatch) \cup LongBatches

\* ---------------------------------------------------------------- state
VARIABLES
    capacity,        \* self.capacity
    leak_rate,       \* self.leak_rate
    bucket,          \* self.bucket, head first
    last_leak_time,  \* self.last_leak_time
    bandwidth_used,  \* self.bandwidth_used
    status,          \* process_packets: "idle", "running", "returned", "raised"
    frame,           \* the locals, then the result, of process_packets
    ret,             \* the last call: its name, what it passed and returned
    leak_call,       \* the leak() call of the last step, NoLeak if it made none
    burst,           \* add_packet calls since construction, all at zero
                     \* elapsed time and nothing else called; -1 once broken
    pure,            \* the arguments and results of the pure methods
    history,         \* what the calls since construction did, when kept
    callers          \* the add_packet calls of concurrent callers, when any

self_vars == <<capacity, leak_rate, bucket, last_leak_time, bandwidth_used>>

vars == <<capacity, leak_rate, bucket, last_leak_time, bandwidth_used,
          status, frame, ret, leak_call, burst, pure, history, callers>>

NoPure == [f |-> "none"]

\* No history is kept.
NoHistory == [kind |-> "none"]

\* The history of the calls on a new shaper.  pending: the items add_packet
\* appended to the bucket, in order, less as many of the oldest as leak()
\* removed.  only_process: no add_packet, leak or measure_bandwidth was called
\* other than by process_packets; while so, accepted holds the packets of the
\* processed_packets lists the calls returned, transformed as the call did, in
\* order (the last capacity of them are kept), recorded the sum of the values
\* of the 'hlba' metrics they returned, and raised tells whether a call ended
\* with an exception, returning nothing.
CallHistory ==
    [kind |-> "calls", pending |-> <<>>, only_process |-> TRUE,
     accepted |-> <<>>, recorded |-> 0, raised |-> FALSE]

RECURSIVE SumSeq(_)
\* sum(q)
SumSeq(q) == IF q = <<>> THEN 0 ELSE Head(q) + SumSeq(Tail(q))

\* The history of a shaper constructed at reading now, under a clock that
\* never goes back: born is the reading of __init__, clock the last reading of
\* time.time(), leaked the number of items the leak() calls removed.
ClockHistory(now) ==
    [kind |-> "clock", born |-> now, clock |-> now, leaked |-> 0]

\* q without its first n elements.
DropFirst(q, n) == IF n >= Len(q) THEN <<>> ELSE SubSeq(q, n + 1, Len(q))

\* The last n elements of q.
LastOf(q, n) ==
    IF n <= 0 THEN <<>>
    ELSE IF Len(q) <= n THEN q
    ELSE SubSeq(q, Len(q) - n + 1, Len(q))

\* The history h after a step: reads tells whether the step read the clock
\* (as now), lk is its leak() call, items what it then appended to the bucket,
\* accepted and recorded the processed_packets (transformed) and the sum of
\* the 'hlba' metrics that the step returned from process_packets, direct
\* whether the step is a call from outside process_packets.
Logged(h, reads, now, lk, items, accepted, recorded, direct) ==
    CASE h.kind = "none" -> h
      [] h.kind = "calls" ->
            LET only == h.only_process /\ ~direct
            IN  [h EXCEPT
                    !.pending = DropFirst(@, Len(lk.leaked)) \o items,
                    !.only_process = only,
                    !.accepted = IF only
                                 THEN LastOf(@ \o accepted, capacity)
                                 ELSE <<>>,
                    !.recorded = IF only THEN @ + recorded ELSE 0,
                    !.raised = only /\ @]
      [] h.kind = "clock" ->
            [h EXCEPT
                !.clock = IF reads THEN now ELSE @,
                !.leaked = @ + Len(lk.leaked)]

\* The history h after a process_packets call ended with an exception.
LoggedRaise(h) ==
    IF h.kind = "calls" THEN [h EXCEPT !.raised = h.only_process] ELSE h

\* May time.time() return now?  Any reading, unless the history is that of a
\* clock that never goes back.
ClockReads(now) == history.kind = "clock" => now >= history.clock

\* No concurrent caller.
NoCallers == [on |-> FALSE]

EmptyFrame ==
    [packets |-> <<>>, pascal_row |-> <<>>, optimized_order |-> <<>>,
     visited |-> 0, processed_packets |-> <<>>, dropped_packets |-> <<>>,
     hlba |-> <<>>, traditional |-> <<>>, individual_differences |-> <<>>,
     start_time |-> 0, measured_time |-> 0, processing_time |-> 0]

Ret(name, packet, adds, added, bandwidth) ==
    [op |-> name, packet |-> packet, adds |-> adds, added |-> added,
     bandwidth |-> bandwidth, is_hlba |-> FALSE]

\* __init__(capacity, leak_rate) at clock reading now: no argument is checked.
Construct(cap, rate, now) ==
    /\ capacity = cap
    /\ leak_rate = rate
    /\ bucket = <<>>
    /\ last_leak_time = now
    /\ bandwidth_used = 0

Init ==
    /\ \E cap \in Capacities, rate \in Rates, now \in Times :
           Construct(cap, rate, now)
    /\ status = "idle"
    /\ frame = EmptyFrame
    /\ ret = Ret("__init__", <<>>, FALSE, FALSE, 0)
    /\ leak_call = NoLeak
    /\ burst = 0
    /\ pure = NoPure
    /\ history = NoHistory
    /\ callers = NoCallers

\* bandwidth_used grows for ever in the source: a call that measures starts
\* only while it is below this.
BandwidthCap == 2 * Bandwidth(1, HlbaOverheadPct, HlbaDivisor)

\* floor(R * dt * 100) = 0 for the reading now.
ZeroElapsed(now) ==
    FloorDiv(leak_rate * (now - last_leak_time) * LeakScale, 200) = 0

\* ------------------------------------------------------- the direct calls
AddPacket(packet, now) ==
    /\ status # "running"
    /\ ClockReads(now)
    /\ LET r == add_packet(bucket, capacity, leak_rate, last_leak_time, now,
                           packet)
       IN  /\ bucket' = r.bucket
           /\ last_leak_time' = r.last_leak_time
           /\ leak_call' = r.leak_call
           /\ ret' = Ret("add_packet", packet, TRUE, r.added, 0)
           /\ history' = Logged(history, r.leak_call.called, now, r.leak_call,
                                IF r.added THEN <<packet>> ELSE <<>>,
                                <<>>, 0, TRUE)
    /\ burst' = IF burst >= 0 /\ burst < MaxBurst /\ ZeroElapsed(now)
                THEN burst + 1 ELSE -1
    /\ status' = "idle"
    /\ frame' = EmptyFrame
    /\ UNCHANGED <<capacity, leak_rate, bandwidth_used, pure, callers>>

Leak(now) ==
    /\ status # "running"
    /\ ClockReads(now)
    /\ LET lk == leak(bucket, leak_rate, last_leak_time, now)
       IN  /\ bucket' = lk.bucket
           /\ last_leak_time' = lk.last_leak_time
           /\ leak_call' = lk.leak_call
           /\ history' = Logged(history, TRUE, now, lk.leak_call, <<>>, <<>>,
                                0, TRUE)
    /\ ret' = Ret("leak", <<>>, FALSE, FALSE, 0)
    /\ burst' = -1
    /\ status' = "idle"
    /\ frame' = EmptyFrame
    /\ UNCHANGED <<capacity, leak_rate, bandwidth_used, pure, callers>>

MeasureBandwidth(packet, is_hlba) ==
    /\ status # "running"
    /\ bandwidth_used < BandwidthCap
    /\ bandwidth_used' = BandwidthUsedAfter(bandwidth_used, packet, is_hlba)
    /\ ret' = [Ret("measure_bandwidth", packet, FALSE, FALSE,
                   measure_bandwidth(packet, is_hlba))
                   EXCEPT !.is_hlba = is_hlba]
    /\ leak_call' = NoLeak
    /\ history' = Logged(history, FALSE, 0, NoLeak, <<>>, <<>>, 0, TRUE)
    /\ burst' = -1
    /\ status' = "idle"
    /\ frame' = EmptyFrame
    /\ UNCHANGED <<capacity, leak_rate, bucket, last_leak_time, pure, callers>>

\* -------------------------------------------------------- process_packets
\* select_pascal_row with < for <=: a batch of 5 gets the row of the table.
select_pascal_row_strict(n) ==
    IF n < SmallBatchLen
    THEN <<1, 1>>
    ELSE LET pascal_triangle == generate_pascals_triangle(PascalRows)
         IN  pascal_triangle[Min(4, Len(pascal_triangle) - 1) + 1]

select_pascal_row(n) ==
    IF n <= SmallBatchLen
    THEN <<1, 1>>
    ELSE LET pascal_triangle == generate_pascals_triangle(PascalRows)
         IN  pascal_triangle[Min(4, Len(pascal_triangle) - 1) + 1]

PacketSizes(batch) == [k \in 1..Len(batch) |-> Len(batch[k])]

\* The measured (end - start) * 1000 ms, in units of 1e-5 ms.
MeasuredTime(start, end) == ((end - start) * 1000 * 100000) \div 200

\* processing_time as process_packets returns it.
processing_time_of(batch, start, end) ==
    IF Len(batch) > 0 /\ Len(batch[1]) = StudyPacketLen
    THEN StudyTime
    ELSE MeasuredTime(start, end)

\* Lines 226-247: the clock is read, the key row chosen, the order planned.
ProcessStart(batch, now) ==
    /\ status # "running"
    /\ ClockReads(now)
    /\ LET order == optimize_packet_transmission(PacketSizes(batch))
       IN  /\ bandwidth_used < BandwidthCap
           /\ frame' = [EmptyFrame EXCEPT
                            !.packets = batch,
                            !.pascal_row = select_pascal_row(Len(batch)),
                            !.optimized_order = order,
                            !.start_time = now]
    /\ status' = "running"
    /\ ret' = Ret("process_packets", <<>>, FALSE, FALSE, 0)
    /\ leak_call' = NoLeak
    /\ history' = Logged(history, TRUE, now, NoLeak, <<>>, <<>>, 0, FALSE)
    /\ burst' = -1
    /\ UNCHANGED <<self_vars, pure, callers>>

\* Lines 250-274: one iteration of the loop; now is the reading leak() takes
\* if add_packet calls it.  A zero traditional bandwidth makes line 264 raise
\* ZeroDivisionError, after line 258 has added to bandwidth_used; the
\* exception ends the call and its locals.
ProcessPacket(now) ==
    /\ status = "running"
    /\ ClockReads(now)
    /\ frame.visited < Len(frame.optimized_order)
    /\ LET idx == frame.optimized_order[frame.visited + 1]
       IN  IF idx < Len(frame.packets)
           THEN LET packet == frame.packets[idx + 1]
                    encrypted_packet == encrypt_packet(packet, frame.pascal_row)
                    hlba_bandwidth == measure_bandwidth(packet, TRUE)
                    traditional_bandwidth == measure_bandwidth(packet, FALSE)
                    r == add_packet(bucket, capacity, leak_rate,
                                    last_leak_time, now, encrypted_packet)
                IN  /\ bandwidth_used' =
                           BandwidthUsedAfter(
                               BandwidthUsedAfter(bandwidth_used, packet, TRUE),
                               packet, FALSE)
                    /\ IF traditional_bandwidth = 0
                       THEN /\ status' = "raised"
                            /\ frame' = EmptyFrame
                            /\ ret' = Ret("process_packets", <<>>, FALSE,
                                          FALSE, hlba_bandwidth)
                            /\ leak_call' = NoLeak
                            /\ history' = LoggedRaise(history)
                            /\ UNCHANGED <<bucket, last_leak_time>>
                       ELSE /\ status' = "running"
                            /\ bucket' = r.bucket
                            /\ last_leak_time' = r.last_leak_time
                            /\ leak_call' = r.leak_call
                            /\ ret' = Ret("process_packets", encrypted_packet,
                                          TRUE, r.added, hlba_bandwidth)
                            /\ history' =
                                   Logged(history, r.leak_call.called, now,
                                          r.leak_call,
                                          IF r.added THEN <<encrypted_packet>>
                                                     ELSE <<>>,
                                          <<>>, 0, FALSE)
                            /\ frame' = [frame EXCEPT
                                   !.visited = @ + 1,
                                   !.individual_differences = Append(@,
                                       <<(hlba_bandwidth
                                            - traditional_bandwidth) * 100,
                                         traditional_bandwidth>>),
                                   !.hlba = Append(@, hlba_bandwidth),
                                   !.traditional =
                                       Append(@, traditional_bandwidth),
                                   !.processed_packets =
                                       IF r.added THEN Append(@, packet) ELSE @,
                                   !.dropped_packets =
                                       IF r.added THEN @ ELSE Append(@, packet)]
           ELSE /\ frame' = [frame EXCEPT !.visited = @ + 1]
                /\ ret' = Ret("process_packets", <<>>, FALSE, FALSE, 0)
                /\ leak_call' = NoLeak
                /\ UNCHANGED <<bucket, last_leak_time, bandwidth_used, status,
                               history>>
    /\ UNCHANGED <<capacity, leak_rate, burst, pure, callers>>

\* Lines 276-283: the clock is read again and the four-part result returned.
\* The locals end with the call: frame keeps the result, and measured_time,
\* the value line 277 computed.
ProcessReturn(now) ==
    /\ status = "running"
    /\ ClockReads(now)
    /\ frame.visited = Len(frame.optimized_order)
    /\ frame' = [EmptyFrame EXCEPT
                     !.processed_packets = frame.processed_packets,
                     !.dropped_packets = frame.dropped_packets,
                     !.hlba = frame.hlba,
                     !.traditional = frame.traditional,
                     !.individual_differences = frame.individual_differences,
                     !.measured_time = MeasuredTime(frame.start_time, now),
                     !.processing_time =
                         processing_time_of(frame.packets, frame.start_time,
                                            now)]
    /\ status' = "returned"
    /\ ret' = Ret("process_packets", <<>>, FALSE, FALSE, 0)
    /\ leak_call' = NoLeak
    /\ history' = Logged(history, TRUE, now, NoLeak, <<>>,
                         [k \in 1..Len(frame.processed_packets) |->
                             encrypt_packet(frame.processed_packets[k],
                                            frame.pascal_row)],
                         SumSeq(frame.hlba), FALSE)
    /\ UNCHANGED <<self_vars, burst, pure, callers>>

Next ==
    \/ \E packet \in DirectPackets, now \in Times : AddPacket(packet, now)
    \/ \E now \in Times : Leak(now)
    \/ \E packet \in DirectPackets, is_hlba \in BOOLEAN :
           MeasureBandwidth(packet, is_hlba)
    \/ \E batch \in Batches, now \in Times : ProcessStart(batch, now)
    \/ \E now \in Times : ProcessPacket(now)
    \/ \E now \in Times : ProcessReturn(now)

Spec == Init /\ [][Next]_vars

\* ----------------------------------- the shaper, the history of its calls
InitHistory ==
    /\ \E cap \in Capacities, rate \in Rates, now \in Times :
           Construct(cap, rate, now)
    /\ status = "idle"
    /\ frame = EmptyFrame
    /\ ret = Ret("__init__", <<>>, FALSE, FALSE, 0)
    /\ leak_call = NoLeak
    /\ burst = 0
    /\ pure = NoPure
    /\ history = CallHistory
    /\ callers = NoCallers

SpecHistory == InitHistory /\ [][Next]_vars

\* ------------------------------- the shaper under a clock never going back
InitClock ==
    /\ \E cap \in Capacities, rate \in Rates, now \in Times :
           Construct(cap, rate, now) /\ history = ClockHistory(now)
    /\ status = "idle"
    /\ frame = EmptyFrame
    /\ ret = Ret("__init__", <<>>, FALSE, FALSE, 0)
    /\ leak_call = NoLeak
    /\ burst = 0
    /\ pure = NoPure
    /\ callers = NoCallers

SpecClock == InitClock /\ [][Next]_vars

\* ------------------------------ add_packet, called by concurrent callers
\* Two callers on one shaper.  Each statement of add_packet (lines 163-172)
\* and of leak (lines 137-148) is one step, and the steps of the two callers
\* interleave.  The source takes no lock; callers.serialized stands for
\* callers that enter add_packet one at a time, holder being the caller that
\* is in it (0: none).
Callers == {1, 2}

IdleCaller ==
    [pc |-> "idle", packet |-> <<>>, current_time |-> 0,
     time_difference |-> 0, packets_to_leak |-> 0]

\* May caller c enter add_packet without waiting?
CanCallAnyTime(c) == TRUE

\* May caller c enter add_packet?  Serialized callers wait for the one in it.
CanCall(c) == callers.serialized => callers.holder = 0

InitCallers ==
    /\ \E cap \in 1..MaxCapacity, rate \in Rates, now \in Times :
           Construct(cap, rate, now)
    /\ status = "idle"
    /\ frame = EmptyFrame
    /\ ret = Ret("__init__", <<>>, FALSE, FALSE, 0)
    /\ leak_call = NoLeak
    /\ burst = 0
    /\ pure = NoPure
    /\ history = NoHistory
    /\ \E serialized \in BOOLEAN :
           callers = [on |-> TRUE, serialized |-> serialized, holder |-> 0,
                      of |-> [c \in Callers |-> IdleCaller]]

\* What the steps of the callers leave alone.
caller_frame == <<capacity, leak_rate, bandwidth_used, status, frame, ret,
                  leak_call, burst, pure, history>>

\* Caller c is at the statement pc.
At(c, pc) == callers.on /\ callers.of[c].pc = pc

\* callers, with caller c's locals changed to loc.
Moved(c, loc) == [callers EXCEPT !.of[c] = loc]

\* callers, with caller c returned from add_packet.
Returned(c) ==
    [callers EXCEPT !.of[c] = IdleCaller,
                    !.holder = IF callers.serialized THEN 0 ELSE @]

\* Caller c calls add_packet(packet), with the one-byte packet c.
CallAddPacket(c) ==
    /\ At(c, "idle")
    /\ CanCall(c)
    /\ callers' = [callers EXCEPT
                      !.of[c] = [IdleCaller EXCEPT !.pc = "check",
                                                   !.packet = <<c>>],
                      !.holder = IF callers.serialized THEN c ELSE @]
    /\ UNCHANGED <<bucket, last_leak_time, caller_frame>>

\* Line 163: if len(self.bucket) < self.capacity.
CheckRoom(c) ==
    /\ At(c, "check")
    /\ callers' = Moved(c, [callers.of[c] EXCEPT
                               !.pc = IF Len(bucket) < capacity
                                      THEN "append" ELSE "leak"])
    /\ UNCHANGED <<bucket, last_leak_time, caller_frame>>

\* Lines 164-165 and 170-171: self.bucket.append(packet); return True.
AppendPacket(c) ==
    /\ At(c, "append")
    /\ bucket' = Append(bucket, callers.of[c].packet)
    /\ callers' = Returned(c)
    /\ UNCHANGED <<last_leak_time, caller_frame>>

\* Lines 137-138 of leak: the clock is read and time_difference computed.
LeakReadClock(c, now) ==
    /\ At(c, "leak")
    /\ callers' = Moved(c, [callers.of[c] EXCEPT
                               !.pc = "stamp",
                               !.current_time = now,
                               !.time_difference = now - last_leak_time])
    /\ UNCHANGED <<bucket, last_leak_time, caller_frame>>

\* Line 139: self.last_leak_time = current_time, which is not read again.
LeakStamp(c) ==
    /\ At(c, "stamp")
    /\ last_leak_time' = callers.of[c].current_time
    /\ callers' = Moved(c, [callers.of[c] EXCEPT !.pc = "count",
                                                 !.current_time = 0])
    /\ UNCHANGED <<bucket, caller_frame>>

\* Line 142: packets_to_leak; range() of it, which is empty below 1.
\* time_difference is not read again.
LeakCount(c) ==
    /\ At(c, "count")
    /\ callers' = Moved(c, [callers.of[c] EXCEPT
                               !.pc = "pop",
                               !.time_difference = 0,
                               !.packets_to_leak =
                                   Max(0, packets_to_leak(bucket, leak_rate,
                                           callers.of[c].time_difference))])
    /\ UNCHANGED <<bucket, last_leak_time, caller_frame>>

\* Lines 146-148: one iteration of the loop, popleft if the bucket is not
\* empty; after the last, leak returns to line 169.
LeakPop(c) ==
    /\ At(c, "pop")
    /\ IF callers.of[c].packets_to_leak > 0
       THEN /\ bucket' = IF bucket # <<>> THEN Tail(bucket) ELSE bucket
            /\ callers' = Moved(c, [callers.of[c] EXCEPT
                                       !.packets_to_leak = @ - 1])
       ELSE /\ bucket' = bucket
            /\ callers' = Moved(c, [callers.of[c] EXCEPT !.pc = "recheck"])
    /\ UNCHANGED <<last_leak_time, caller_frame>>

\* Lines 169 and 172: the second capacity check; return False if it fails.
RecheckRoom(c) ==
    /\ At(c, "recheck")
    /\ callers' = IF Len(bucket) < capacity
                  THEN Moved(c, [callers.of[c] EXCEPT !.pc = "append"])
                  ELSE Returned(c)
    /\ UNCHANGED <<bucket, last_leak_time, caller_frame>>

NextCallers ==
    \/ \E c \in Callers : CallAddPacket(c)
    \/ \E c \in Callers : CheckRoom(c)
    \/ \E c \in Callers : AppendPacket(c)
    \/ \E c \in Callers, now \in Times : LeakReadClock(c, now)
    \/ \E c \in Callers : LeakStamp(c)
    \/ \E c \in Callers : LeakCount(c)
    \/ \E c \in Callers : LeakPop(c)
    \/ \E c \in Callers : RecheckRoom(c)

SpecCallers == InitCallers /\ [][NextCallers]_vars

\* ------------------------------------------------- the cipher, on its own
\* The shaper the pure methods are called on: the one the source's own run
\* builds (lines 317-320).  They read and write none of its fields.
StudyShaper ==
    /\ Construct(2, 2, 0)
    /\ status = "idle"
    /\ frame = EmptyFrame
    /\ ret = Ret("__init__", <<>>, FALSE, FALSE, 0)
    /\ leak_call = NoLeak
    /\ burst = 0
    /\ history = NoHistory
    /\ callers = NoCallers

shaper_vars == <<capacity, leak_rate, bucket, last_leak_time, bandwidth_used,
                 status, frame, ret, leak_call, burst, history, callers>>

Bytes == {0, 1, 255}

\* Packets on both sides of decrypt_packet's length test.
CipherPackets ==
    SeqsUpTo(Bytes, MaxPacketLen)
        \cup {[j \in 1..n |-> b] :
                  n \in (DecryptBypassLen - 1)..(DecryptBypassLen + 2),
                  b \in Bytes}

\* Key rows of length >= 1: the two process_packets uses, and others.
KeyRows ==
    {<<1, 1>>, generate_pascals_triangle(PascalRows)[PascalRows], <<1>>,
     <<0>>, <<256, 3>>}

InitCipher ==
    /\ StudyShaper
    /\ \E packet \in CipherPackets, pascal_row \in KeyRows :
           pure = [f |-> "cipher", stage |-> "packet", packet |-> packet,
                   pascal_row |-> pascal_row, encrypted |-> <<>>,
                   decrypted |-> <<>>]

Encrypt ==
    /\ pure.stage = "packet"
    /\ pure' = [pure EXCEPT
                    !.stage = "encrypted",
                    !.encrypted = encrypt_packet(pure.packet, pure.pascal_row)]
    /\ UNCHANGED shaper_vars

Decrypt ==
    /\ pure.stage = "encrypted"
    /\ pure' = [pure EXCEPT
                    !.stage = "decrypted",
                    !.decrypted =
                        decrypt_packet(pure.encrypted, pure.pascal_row)]
    /\ UNCHANGED shaper_vars

NextCipher == Encrypt \/ Decrypt

SpecCipher == InitCipher /\ [][NextCipher]_vars

\* ------------------------------------------------ the planner, on its own
Sizes == {5, 10, 30, 70}

\* Lists of more than 10 sizes, 0 among them: any sizes first, then one size
\* repeated.
LongSizeLists ==
    {q \o [j \in 1..(SmallPlanLen + 1 - Len(q)) |-> a] :
         q \in SeqsUpTo(Sizes \cup {0}, MaxSizes - 1), a \in Sizes \cup {0}}

\* Lists of sizes on both sides of the planner's length test.
SizeLists ==
    SeqsUpTo(Sizes, MaxSizes)
        \cup {BatchOf(n, a, k, b) :
                  n \in {SmallPlanLen, SmallPlanLen + 1},
                  a \in Sizes, k \in 0..SmallPlanLen, b \in Sizes}
        \cup LongSizeLists

InitPlanner ==
    /\ StudyShaper
    /\ \E packet_sizes \in SizeLists :
           pure = [f |-> "planner", stage |-> "sizes",
                   packet_sizes |-> packet_sizes, order |-> <<>>]

Plan ==
    /\ pure.stage = "sizes"
    /\ pure' = [pure EXCEPT
                    !.stage = "planned",
                    !.order = optimize_packet_transmission(pure.packet_sizes)]
    /\ UNCHANGED shaper_vars

NextPlanner == Plan

SpecPlanner == InitPlanner /\ [][NextPlanner]_vars

\* ----------------------------------------------------------- the claims
Count(q, x) == Cardinality({i \in 1..Len(q) : q[i] = x})

Range(q) == {q[i] : i \in 1..Len(q)}

\* q and r hold the same elements, each as often.
IsPermutation(q, r) ==
    /\ Len(q) = Len(r)
    /\ \A x \in Range(q) \cup Range(r) : Count(q, x) = Count(r, x)

\* C1: on a shaper of positive capacity the bucket never holds more than
\* capacity items, after any call of add_packet, leak or process_packets,
\* whatever the clock reads.
C1_BucketWithinCapacity == capacity > 0 => Len(bucket) <= capacity

\* An admission found the bucket of a positive-capacity shaper full, leaked
\* nothing and was rejected.
C1_Witness ==
    /\ capacity > 0
    /\ Len(bucket) = capacity
    /\ ret.adds /\ ~ret.added
    /\ leak_call.called

\* C2: no shaper of capacity <= 0 exists on which add_packet or
\* process_packets is called: its construction failed.
C2_NoCallOnNonPositiveCapacity ==
    ret.op \in {"add_packet", "process_packets"} => capacity > 0

\* C3: decrypt_packet(encrypt_packet(p, k), k) = p for every packet p and
\* every key row k of length >= 1.
C3_RoundTrip ==
    (pure.f = "cipher" /\ pure.stage = "decrypted")
        => pure.decrypted = pure.packet

\* What is left of the bucket b once leak() has returned the list leaked.
AfterLeak(b, leaked) == SubSeq(b, Len(leaked) + 1, Len(b))

\* add_packet's contract over one step that called it with ret'.packet.
AddContract ==
    IF Len(bucket) < capacity
    THEN /\ bucket' = Append(bucket, ret'.packet)
         /\ ret'.added
         /\ ~leak_call'.called
         /\ last_leak_time' = last_leak_time
    ELSE /\ leak_call'.called
         /\ bucket = leak_call'.leaked \o AfterLeak(bucket, leak_call'.leaked)
         /\ IF Len(AfterLeak(bucket, leak_call'.leaked)) < capacity
            THEN /\ bucket' = Append(AfterLeak(bucket, leak_call'.leaked),
                                     ret'.packet)
                 /\ ret'.added
            ELSE /\ bucket' = AfterLeak(bucket, leak_call'.leaked)
                 /\ ~ret'.added

\* After burst admissions since construction, each at zero elapsed time:
\* the last one was accepted iff it was among the first capacity ones.
BurstOutcome ==
    burst >= 1 =>
        /\ ret.op = "add_packet"
        /\ ret.added = (burst <= capacity)
        /\ Len(bucket) = Min(burst, Max(capacity, 0))

\* C4: add_packet appends at the tail and accepts when len < capacity;
\* otherwise it calls leak, checks again, and either appends to what leak left
\* or rejects and leaves it.  With floor(R * dt * 100) = 0 at every call since
\* construction, exactly the first capacity admissions are accepted.
C4_AdmitContract ==
    [][(ret'.adds => AddContract) /\ BurstOutcome']_vars

\* Scenario A: capacity 2, rate 2, three admissions with no elapsed time; the
\* third was rejected and the first two are in the bucket.
C4_Witness ==
    /\ capacity = 2 /\ leak_rate = 2
    /\ burst = 3
    /\ ~ret.added
    /\ Len(bucket) = 2
    /\ leak_call.called /\ leak_call.leaked = <<>>

\* C5: an admission that finds the bucket full (len = capacity) at a reading
\* with floor(R * dt * 100) >= capacity drains the whole bucket and is
\* accepted: the bucket then holds exactly the new item.
C5_DrainThenAccept ==
    [][(/\ ret'.adds
        /\ Len(bucket) = capacity
        /\ FloorDiv(leak_rate * (last_leak_time' - last_leak_time) * LeakScale,
                    200) >= capacity)
       => (ret'.added /\ bucket' = <<ret'.packet>>)]_vars

\* The same with the shaper's capacity at least 1, which the code satisfies.
C5_DrainThenAcceptPositive ==
    [][(/\ ret'.adds
        /\ capacity >= 1
        /\ Len(bucket) = capacity
        /\ FloorDiv(leak_rate * (last_leak_time' - last_leak_time) * LeakScale,
                    200) >= capacity)
       => (ret'.added /\ bucket' = <<ret'.packet>>)]_vars

\* Scenario B: capacity 2, rate 2, the third admission drained both items.
C5_ScenarioB ==
    /\ capacity = 2 /\ leak_rate = 2
    /\ ret.adds /\ ret.added
    /\ Len(leak_call.leaked) = 2
    /\ bucket = <<ret.packet>>

\* C6 as first stated: leak returns at most len(bucket) items and at most
\* floor(rate * dt * 100) items.
C6_LeakBound ==
    [][leak_call'.called =>
        /\ Len(leak_call'.leaked) <= Len(bucket)
        /\ Len(leak_call'.leaked)
             <= FloorDiv(leak_rate * (last_leak_time' - last_leak_time)
                           * LeakScale, 200)]_vars

\* C6, amended: leak returns at most len(bucket) items and at most
\* max(0, floor(rate * dt * 100)) items.
C6_LeakBoundNonNegative ==
    [][leak_call'.called =>
        /\ Len(leak_call'.leaked) <= Len(bucket)
        /\ Len(leak_call'.leaked)
             <= Max(0, FloorDiv(leak_rate * (last_leak_time' - last_leak_time)
                                  * LeakScale, 200))]_vars

\* A leak whose rate bound, not the bucket, limited it: it returned an item
\* and left one.
C6_Witness ==
    /\ leak_call.called
    /\ Len(leak_call.leaked) = 1
    /\ Len(bucket) >= 1
    /\ ret.op = "leak"

\* order lists the 0-based indices of sizes once each.
IsIndexPermutation(order, sizes) ==
    /\ Len(order) = Len(sizes)
    /\ \A i \in 0..(Len(sizes) - 1) : Count(order, i) = 1

\* C7: for at most 10 sizes the planner returns a permutation of the indices
\* with non-decreasing sizes, equal sizes in their original order; sizes
\* [30,10,70,5] give [3,1,0,2].
C7_PlannerSorts ==
    (pure.f = "planner" /\ pure.stage = "planned"
        /\ Len(pure.packet_sizes) <= SmallPlanLen)
    => /\ IsIndexPermutation(pure.order, pure.packet_sizes)
       /\ \A i, j \in 1..Len(pure.order) :
              i < j =>
                  \/ pure.packet_sizes[pure.order[i] + 1]
                       < pure.packet_sizes[pure.order[j] + 1]
                  \/ /\ pure.packet_sizes[pure.order[i] + 1]
                          = pure.packet_sizes[pure.order[j] + 1]
                     /\ pure.order[i] < pure.order[j]
       /\ (pure.packet_sizes = <<30, 10, 70, 5>>
              => pure.order = <<3, 1, 0, 2>>)

\* Scenario C, planned.
C7_ScenarioC ==
    /\ pure.f = "planner" /\ pure.stage = "planned"
    /\ pure.packet_sizes = <<30, 10, 70, 5>>
    /\ pure.order = <<3, 1, 0, 2>>

\* C8: a process_packets call ends by returning accepted and dropped lists
\* that hold every visited packet once: as many as the planner's indices, and
\* for a batch of at most 10 a permutation of the batch.
C8_EveryVisitedPacketPlaced ==
    [][(status = "running" /\ status' # "running")
       => /\ status' = "returned"
          /\ Len(frame'.processed_packets) + Len(frame'.dropped_packets)
               = Len(frame.optimized_order)
          /\ (Len(frame.packets) <= SmallPlanLen
                => IsPermutation(frame'.processed_packets
                                   \o frame'.dropped_packets,
                                 frame.packets))]_vars

\* C9: the elapsed time process_packets returns is the measured difference of
\* its two clock readings.
C9_ElapsedIsMeasured ==
    status = "returned" => frame.processing_time = frame.measured_time

\* C10: process_packets never fails with a division by zero.
C10_NoDivisionByZero == status # "raised"

\* What C11 says of one step of a shaper of leak rate <= 0.
NeverDrains ==
    /\ leak_call'.called => leak_call'.leaked = <<>>
    /\ Len(bucket) = capacity =>
           /\ bucket' = bucket
           /\ ret'.adds => ~ret'.added

\* C11: on a shaper of leak rate <= 0 every leak call removes nothing,
\* whatever the clock reads (also a reading below the last one); so once the
\* bucket holds capacity items it never changes again and every later
\* admission is rejected.
C11_NonPositiveRateNeverDrains == [][leak_rate <= 0 => NeverDrains]_vars

\* The same for the leak calls whose reading is not below last_leak_time,
\* which the code satisfies.
C11_NeverDrainsForward ==
    [][(leak_rate <= 0 /\ last_leak_time' >= last_leak_time)
           => NeverDrains]_vars

\* A full bucket of a shaper of rate <= 0 met an admission, which was
\* rejected after a leak that removed nothing.
C11_FullStaysFull ==
    /\ leak_rate <= 0 /\ capacity > 0
    /\ Len(bucket) = capacity
    /\ ret.adds /\ ~ret.added
    /\ leak_call.called /\ leak_call.leaked = <<>>

\* C12: on a shaper of capacity <= 0 no add_packet call appends to the
\* bucket: every admission is rejected and the bucket is empty after any
\* sequence of calls.
C12_NothingAdmittedWithoutCapacity ==
    capacity <= 0 => (bucket = <<>> /\ (ret.adds => ~ret.added))

\* process_packets on a shaper of capacity <= 0 had a packet rejected, after
\* a leak of the empty bucket.
C12_Witness ==
    /\ capacity <= 0
    /\ ret.op = "process_packets" /\ ret.adds /\ ~ret.added
    /\ leak_call.called
    /\ bucket = <<>>

\* table is rows rows of the combinatorial table: row i (from 0) has i + 1
\* entries, 1 at both edges, each other the sum of the two above it.
IsCombinatorialTable(table, rows) ==
    /\ Len(table) = rows
    /\ \A i \in 0..(rows - 1) :
           /\ Len(table[i + 1]) = i + 1
           /\ \A j \in 0..i :
                  table[i + 1][j + 1] =
                      IF j = 0 \/ j = i THEN 1
                      ELSE table[i][j] + table[i][j + 1]

\* C13: the key row of a process_packets call depends on the size of the
\* batch only: [1,1] for at most 5 packets, else row 4 of the 5-row
\* combinatorial table, [1,4,6,4,1]; it never is empty.
C13_KeyRowByBatchSize ==
    /\ IsCombinatorialTable(generate_pascals_triangle(5), 5)
    /\ status = "running" =>
           /\ Len(frame.pascal_row) >= 1
           /\ IF Len(frame.packets) <= 5
              THEN frame.pascal_row = <<1, 1>>
              ELSE /\ frame.pascal_row = generate_pascals_triangle(5)[4 + 1]
                   /\ frame.pascal_row = <<1, 4, 6, 4, 1>>

\* Scenario D: a batch of 6 is under way with row 4 of the table as its key,
\* and a packet transformed with it is in the bucket.
C13_ScenarioD ==
    /\ status = "running"
    /\ Len(frame.packets) = 6
    /\ frame.pascal_row = <<1, 4, 6, 4, 1>>
    /\ ret.adds /\ ret.added
    /\ ret.packet = <<1, 4, 6, 4, 1>>

\* C14: the bucket is first in, first out.  After every step it is the items
\* admitted so far, in admission order, less the oldest that leak removed
\* (history.pending), so the oldest stored item is at its head; and a leak
\* call that removes n items returns the n oldest, in admission order.
C14_Fifo ==
    [][/\ bucket' = history'.pending
       /\ leak_call'.called =>
              leak_call'.leaked
                  = SubSeq(history.pending, 1, Len(leak_call'.leaked))]_vars

\* An admission found two different items stored, leaked the older one only
\* and appended a third item behind the younger.
C14_Witness ==
    /\ history.kind = "calls"
    /\ ret.adds /\ ret.added
    /\ Len(leak_call.leaked) = 1
    /\ Len(bucket) = 2
    /\ leak_call.leaked[1] # bucket[1]
    /\ bucket[1] # bucket[2]

\* C15: leak is lazy.  Within add_packet and process_packets a leak call is
\* made only by an admission that finds the bucket full; an admission that
\* finds len(bucket) < capacity removes nothing from the bucket and leaves
\* last_leak_time as it was, whatever the clock reads.
C15_LazyLeak ==
    [][/\ (ret'.adds /\ Len(bucket) < capacity) =>
              /\ ~leak_call'.called
              /\ SubSeq(bucket', 1, Len(bucket)) = bucket
              /\ last_leak_time' = last_leak_time
       /\ (leak_call'.called /\ ret'.op # "leak") =>
              (ret'.adds /\ Len(bucket) >= capacity)]_vars

\* A process_packets call that began 2 clock units after last_leak_time, on a
\* shaper whose rate allows 2 items in that time, had a packet admitted behind
\* a stored item with no leak: the item is still there and last_leak_time is
\* the old one.
C15_Witness ==
    /\ status = "running"
    /\ capacity = 2 /\ leak_rate = 2
    /\ ret.adds /\ ret.added
    /\ ~leak_call.called
    /\ Len(bucket) = 2
    /\ frame.start_time - last_leak_time = 2

\* What C16 says of one step that is a measure_bandwidth call.
MeasureEffect ==
    ret'.op = "measure_bandwidth" =>
        /\ UNCHANGED <<capacity, leak_rate, bucket, last_leak_time>>
        /\ bandwidth_used' = IF ret'.is_hlba
                             THEN bandwidth_used + ret'.bandwidth
                             ELSE bandwidth_used

\* Process_packets alone was called and no call is under way.
AfterProcessCalls == history.only_process /\ status # "running"

\* C16: measure_bandwidth with the baseline profile changes nothing of the
\* shaper; with the primary profile it adds the value it returns to
\* bandwidth_used and changes nothing else.  process_packets never resets
\* bandwidth_used: after any sequence of process_packets calls it is the sum
\* of the primary bandwidths in the metrics of all those calls.
C16_AccumulatorIsMetricsSum ==
    [][/\ MeasureEffect
       /\ AfterProcessCalls' => bandwidth_used' = history'.recorded]_vars

\* The same while every call returned, which the code satisfies.
C16_AccumulatorIsReturnedSum ==
    [][/\ MeasureEffect
       /\ (AfterProcessCalls' /\ ~history'.raised)
              => bandwidth_used' = history'.recorded]_vars

\* A second process_packets call of one packet has returned: bandwidth_used
\* holds the value of the first call and that of the second.
C16_SecondCall ==
    /\ history.kind = "calls" /\ history.only_process
    /\ status = "returned"
    /\ Len(frame.hlba) = 1 /\ frame.hlba[1] > 0
    /\ bandwidth_used = 2 * frame.hlba[1]
    /\ history.recorded = bandwidth_used

\* C17: the capacity invariant needs serialized callers.  When each
\* add_packet call runs with no step of another caller in it, the bucket never
\* holds more than capacity items; when the steps of two callers interleave
\* between the capacity check and the append, a state with more is reached
\* (C17_Overfull).
C17_SerializedKeepsCapacity ==
    (callers.on /\ callers.serialized) => Len(bucket) <= capacity

\* Two callers that are not serialized: the bucket holds more than capacity
\* items.
C17_Overfull ==
    /\ callers.on /\ ~callers.serialized
    /\ capacity > 0
    /\ Len(bucket) > capacity

\* Index i (from 0) of sizes is a strict running minimum: it is the first, or
\* its size is below every size before it.
IsRunningMinimum(sizes, i) ==
    i = 0 \/ \A j \in 0..(i - 1) : sizes[i + 1] < sizes[j + 1]

\* order is the strictly increasing list of the strict running minima.
IsRunningMinima(order, sizes) ==
    /\ \A k \in 1..(Len(order) - 1) : order[k] < order[k + 1]
    /\ Range(order) =
           {i \in 0..(Len(sizes) - 1) : IsRunningMinimum(sizes, i)}

\* C18: for more than 10 non-negative sizes the planner returns the strictly
\* increasing list of the strict running minima: index 0 is in it, no index
\* twice and none out of range, and it never is the fallback to the identity
\* (kadane_algorithm's list is not empty).
C18_PlannerKeepsRunningMinima ==
    (pure.f = "planner" /\ pure.stage = "planned"
        /\ Len(pure.packet_sizes) > 10)
    => /\ IsRunningMinima(pure.order, pure.packet_sizes)
       /\ Len(pure.order) >= 1 /\ pure.order[1] = 0
       /\ \A k \in 1..Len(pure.order) :
              /\ pure.order[k] \in 0..(Len(pure.packet_sizes) - 1)
              /\ Count(pure.order, pure.order[k]) = 1
       /\ kadane_algorithm([k \in 1..Len(pure.packet_sizes) |->
                               -pure.packet_sizes[k]]) # <<>>

\* Eleven sizes 70, 30, 30, 10, 10, ...: the plan is the three indices 0, 1, 3.
C18_Witness ==
    /\ pure.f = "planner" /\ pure.stage = "planned"
    /\ Len(pure.packet_sizes) = 11
    /\ SubSeq(pure.packet_sizes, 1, 4) = <<70, 30, 30, 10>>
    /\ pure.order = <<0, 1, 3>>

\* C18, for process_packets: of a batch of more than 10 packets it visits,
\* and so accepts or drops, the strict running minima only; of packets of one
\* size, packet 0 only.
C18_ProcessVisitsRunningMinima ==
    (status = "running" /\ Len(frame.packets) > 10)
    => /\ IsRunningMinima(frame.optimized_order, PacketSizes(frame.packets))
       /\ Len(frame.processed_packets) + Len(frame.dropped_packets)
            <= Len(frame.optimized_order)
       /\ (\A k \in 1..Len(frame.packets) :
               Len(frame.packets[k]) = Len(frame.packets[1]))
              => frame.optimized_order = <<0>>

\* C19: the bucket outlives the process_packets calls and holds transformed
\* packets only.  After any sequence of process_packets calls it is, in
\* order, the last len(bucket) of the accepted packets of all the calls, each
\* transformed by encrypt_packet with the key row of its batch.
C19_BucketIsAcceptedTail ==
    AfterProcessCalls => bucket = LastOf(history.accepted, Len(bucket))

\* The same while every call returned, which the code satisfies.
C19_BucketIsReturnedTail ==
    (AfterProcessCalls /\ ~history.raised)
        => bucket = LastOf(history.accepted, Len(bucket))

\* Two calls have returned, of a batch of 1 and of a batch of 6: the bucket
\* holds a packet of the first under the row [1,1] and behind it a packet of
\* the second under the row [1,4,6,4,1].
C19_TwoBatches ==
    /\ history.kind = "calls" /\ history.only_process /\ ~history.raised
    /\ status = "returned"
    /\ bucket = << <<1, 1, 1, 1, 1>>, <<1, 4, 6, 4, 1>> >>

\* floor(R * dt * 100) for the shaper's rate and dt clock units.
RateFloor(dt) == FloorDiv(leak_rate * dt * LeakScale, 200)

\* What C20 says of one step: a leak call sets last_leak_time to the reading
\* of the call, also when it removes nothing; and with a rate > 0 an
\* admission that finds the bucket full, floor(R * dt * 100) = 0 since the
\* admission before it (which also found it full), is rejected and the bucket
\* stays as it is.
NoCarryOver ==
    /\ leak_call'.called => last_leak_time' = history'.clock
    /\ (/\ leak_rate > 0
        /\ ret.adds /\ leak_call.called
        /\ ret'.adds /\ Len(bucket) = capacity
        /\ RateFloor(history'.clock - history.clock) = 0)
       => (~ret'.added /\ bucket' = bucket)

\* C20 as first stated: NoCarryOver, and under a non-decreasing clock the
\* number of items leaked since construction is at most
\* floor(R * (now - construction time) * 100).
C20_LeakedWithinElapsed ==
    [][/\ NoCarryOver
       /\ history'.leaked <= RateFloor(history'.clock - history'.born)]_vars

\* C20, amended: the bound is max(0, floor(R * (now - construction time) * 100)).
C20_LeakedWithinElapsedNonNegative ==
    [][/\ NoCarryOver
       /\ history'.leaked
              <= Max(0, RateFloor(history'.clock - history'.born))]_vars

\* Rate 1, a full bucket, two admissions in a row each 1 clock unit after
\* the one before (floor 0): both rejected and nothing leaked, 2 units after
\* construction, in which time one item could have leaked.
C20_Witness ==
    /\ history.kind = "clock"
    /\ leak_rate = 1 /\ capacity > 0 /\ Len(bucket) = capacity
    /\ ret.adds /\ ~ret.added /\ leak_call.called
    /\ history.clock - history.born = 2
    /\ last_leak_time = history.clock
    /\ history.leaked = 0
    /\ RateFloor(history.clock - history.born) = 1

====
